---- MODULE Spec2Model ----
(***************************************************************************)
(* PPICommunityOptimizer: the overlap/transfer reassignment engine         *)
(* (src/membership_overlap.py), the frozen permanence and TF-IDF tables    *)
(* (src/permanence.py, src/go_tfidf.py), the fitness evaluator             *)
(* (src/lea/fitness_membership.py) and the Lotus Effect optimizer          *)
(* (src/lea/lotus_effect_algorithm.py, src/lea/optimize.py).               *)
(*                                                                         *)
(* Floats are fixed-point integers in units of 1/Unit; every float         *)
(* division of the source is a floor division at that resolution.          *)
(* Python objects that can be aliased (the protein sets of a partition)    *)
(* live in a heap of references, so that a copy and an alias differ.       *)
(***************************************************************************)
EXTENDS Integers, Sequences, FiniteSets, TLC

\* ------------------------------------------------------------------ bounds
NumProteins == 3
NumClusters == 3
NumTerms == 1
MaxPop == 2
MaxEvals == 5

\* -------------------------------------------------------- program constants
dimensions == 3
\* fixed-point resolution: 1.0 is Unit (a multiple of 60, so that the
\* permanence ratios of the graphs in scope are exact, and of 10 for 2.1)
Unit == 12 * 10
Inf == 2 ^ 30
Penalty == -(1000000 * Unit)
lambda_inter == Unit
lambda_fragment == Unit \div 2
lea_alpha == Unit \div 2
lower_bounds == <<0, 0, 0>>
upper_bounds == <<Unit, Unit, Unit>>

Proteins == 1..NumProteins
ClusterIds == 0..(NumClusters - 1)
Terms == 1..NumTerms
NoCluster == -1

\* ----------------------------------------------------------------- helpers
Max2(a, b) == IF a >= b THEN a ELSE b
Min2(a, b) == IF a <= b THEN a ELSE b

\* np.clip / max(lo, min(hi, x))
Clip(x, lo, hi) == Max2(lo, Min2(hi, x))

RECURSIVE SumSet(_, _)
\* sum of f[x] over a finite set S
SumSet(S, f) ==
    IF S = {} THEN 0
    ELSE LET x == CHOOSE y \in S : TRUE
         IN f[x] + SumSet(S \ {x}, f)

\* a dict built by a comprehension, as a stored table
Dict(f) == f @@ <<>>

MaxOfSet(S) == CHOOSE m \in S : \A y \in S : y <= m

\* ascending enumeration of a finite set of integers
RECURSIVE SortedSeq(_)
SortedSeq(S) ==
    IF S = {} THEN <<>>
    ELSE LET m == CHOOSE y \in S : \A z \in S : y <= z
         IN <<m>> \o SortedSeq(S \ {m})

\* --------------------------------------------------------------- the graph
\* nx.Graph: a node set and undirected edges {a, b}
neighbors(graph, p) == {q \in graph.nodes : {p, q} \in graph.edges}
has_edge(graph, a, b) == {a, b} \in graph.edges
number_of_edges(graph) == Cardinality(graph.edges)

\* number of unordered pairs of S joined by an edge
PairEdges(graph, S) == Cardinality({e \in graph.edges : e \subseteq S})

\* ------------------------------------------------------------ permanence.py
\* E_max: maximum connections to any single other cluster (lines 62-71);
\* a cluster whose content equals this one's is skipped
E_max(neigh, cluster, contents) ==
    LET conns == {Cardinality(neigh \cap contents[c]) :
                     c \in {d \in DOMAIN contents : contents[d] # cluster}}
    IN IF conns = {} THEN 0 ELSE MaxOfSet(conns \cup {0})

C_in(graph, internal_neighbors) ==
    LET I_p == Cardinality(internal_neighbors)
        max_possible == (I_p * (I_p - 1)) \div 2
    IN IF I_p < 2 THEN 0
       ELSE IF max_possible > 0
            THEN (PairEdges(graph, internal_neighbors) * Unit) \div max_possible
            ELSE 0

\* variant: Eq.1 returned without the final clipping
calculate_permanence_unclipped(protein, cluster, graph, contents) ==
    IF protein \notin graph.nodes THEN 0
    ELSE LET neigh == neighbors(graph, protein)
             internal_neighbors == neigh \cap cluster
             I_p == Cardinality(internal_neighbors)
             external_neighbors == neigh \ cluster
             E_max_p == E_max(neigh, cluster, contents)
             C_in_p == C_in(graph, internal_neighbors)
             permanence ==
                 IF E_max_p = 0
                 THEN (I_p * Unit) \div Max2(1, Cardinality(neigh)) - (Unit - C_in_p)
                 ELSE (I_p * Unit) \div E_max_p - (Unit - C_in_p)
         IN IF neigh = {} THEN 0
            ELSE IF external_neighbors = {}
                 THEN (IF I_p > 0 THEN Unit ELSE 0)
                 ELSE permanence

calculate_permanence(protein, cluster, graph, contents) ==
    IF protein \notin graph.nodes THEN 0
    ELSE LET neigh == neighbors(graph, protein)
             internal_neighbors == neigh \cap cluster
             I_p == Cardinality(internal_neighbors)
             external_neighbors == neigh \ cluster
             E_max_p == E_max(neigh, cluster, contents)
             C_in_p == C_in(graph, internal_neighbors)
             permanence ==
                 IF E_max_p = 0
                 THEN (I_p * Unit) \div Max2(1, Cardinality(neigh)) - (Unit - C_in_p)
                 ELSE (I_p * Unit) \div E_max_p - (Unit - C_in_p)
         IN IF neigh = {} THEN 0
            ELSE IF external_neighbors = {}
                 THEN (IF I_p > 0 THEN Unit ELSE 0)
                 ELSE Clip(permanence, -Unit, Unit)

\* variant: an entry for every cluster, also those that do not hold the protein
calculate_permanence_all_proteins_full(contents, graph) ==
    LET members == UNION {contents[c] : c \in DOMAIN contents}
    IN [p \in members |->
          [c \in DOMAIN contents |-> calculate_permanence(p, contents[c], graph, contents)]]

\* protein -> (cluster id -> score), one entry per cluster containing it
calculate_permanence_all_proteins(contents, graph) ==
    LET members == UNION {contents[c] : c \in DOMAIN contents}
    IN [p \in members |->
          [c \in {d \in DOMAIN contents : p \in contents[d]} |->
              calculate_permanence(p, contents[c], graph, contents)]]

\* -------------------------------------------------------------- go_tfidf.py
\* math.log of n, n = 1..6, in units of 1/Unit
LnTable == <<0, 83, 132, 166, 193, 215>>
\* variant: the quotient inverted, log(df / N)
Ln_inverted(n, d) == LnTable[d] - LnTable[n]
Ln(n, d) == LnTable[n] - LnTable[d]

GoOf(protein_go_terms, p) ==
    IF p \in DOMAIN protein_go_terms THEN protein_go_terms[p] ELSE {}

tf_count(contents, protein_go_terms, c, t) ==
    Cardinality({p \in contents[c] : t \in GoOf(protein_go_terms, p)})

df_count(contents, protein_go_terms, t) ==
    Cardinality({c \in DOMAIN contents : tf_count(contents, protein_go_terms, c, t) > 0})

\* cluster id -> (term -> tf * idf); a row exists only for a non-empty cluster
\* in which some term occurs, with one entry per term that occurs in it
compute_tf_idf(contents, protein_go_terms) ==
    LET num_clusters == Cardinality(DOMAIN contents)
    IN [c \in {d \in DOMAIN contents :
                  /\ contents[d] # {}
                  /\ \E u \in Terms : tf_count(contents, protein_go_terms, d, u) > 0} |->
          [t \in {u \in Terms : tf_count(contents, protein_go_terms, c, u) > 0} |->
              LET tf == (tf_count(contents, protein_go_terms, c, t) * Unit)
                            \div Cardinality(contents[c])
                  df == df_count(contents, protein_go_terms, t)
                  idf == IF df > 0 THEN Ln(num_clusters, df) ELSE 0
              IN (tf * idf) \div Unit]]

\* self.tfidf_scores.get(cluster_id, {}).get(go_term, 0.0)
get_tfidf(tfidf_scores, cluster_id, go_term) ==
    IF cluster_id \in DOMAIN tfidf_scores
    THEN IF go_term \in DOMAIN tfidf_scores[cluster_id]
         THEN tfidf_scores[cluster_id][go_term]
         ELSE 0
    ELSE 0

\* variant: the lookup indexes the defaultdicts, which inserts the default
tfidf_after_get_insert(tfidf_scores, cluster_id, go_term) ==
    LET row == IF cluster_id \in DOMAIN tfidf_scores THEN tfidf_scores[cluster_id] ELSE <<>>
    IN [c \in DOMAIN tfidf_scores \cup {cluster_id} |->
          IF c = cluster_id
          THEN [t \in DOMAIN row \cup {go_term} |-> IF t \in DOMAIN row THEN row[t] ELSE 0]
          ELSE tfidf_scores[c]]

\* the table after the query: dict.get inserts nothing
tfidf_after_get(tfidf_scores, cluster_id, go_term) == tfidf_scores

\* ------------------------------------------------------ membership_overlap.py
\* math.tanh for x >= 0 in units of 1/Unit (Pade approximant, tanh(0) = 0)
tanh(x) ==
    LET x2 == (x * x) \div Unit
    IN (x * (15 * Unit + x2)) \div (15 * Unit + 6 * x2)

\* fd(p, c) (Eq.2): mean TF-IDF of the protein's terms for the cluster id,
\* squashed by tanh; the cluster content is a parameter the code never reads
calculate_functional_dependency(protein, cluster, protein_go_terms, tfidf_scores, cluster_id) ==
    IF protein \notin DOMAIN protein_go_terms THEN 0
    ELSE LET protein_terms == protein_go_terms[protein]
             fd_sum == SumSet(protein_terms,
                              [t \in protein_terms |-> get_tfidf(tfidf_scores, cluster_id, t)])
             fd_score == fd_sum \div Cardinality(protein_terms)
         IN IF protein_terms = {} THEN 0
            ELSE Clip(tanh(fd_score), -Unit, Unit)

\* permanence_scores.get(protein, {}).get(cluster_id, 0.0)
get_permanence(permanence_scores, protein, cluster_id) ==
    IF protein \in DOMAIN permanence_scores
    THEN IF cluster_id \in DOMAIN permanence_scores[protein]
         THEN permanence_scores[protein][cluster_id]
         ELSE 0
    ELSE 0

\* the table after the query: dict.get inserts nothing
permanence_after_get(permanence_scores, protein, cluster_id) == permanence_scores

\* variant: the structural score is recomputed on the cluster contents handed in
calculate_membership_live(protein, cluster, cluster_id, fz, alpha_in) ==
    LET alpha == Clip(alpha_in, 0, Unit)
        perm_norm == IF protein \in cluster
                     THEN calculate_permanence(protein, cluster, fz.graph,
                                               [c \in {cluster_id} |-> cluster])
                     ELSE 0
        fd_norm == calculate_functional_dependency(protein, cluster, fz.protein_go_terms,
                                                   fz.tfidf_scores, cluster_id)
        membership == (alpha * perm_norm + (Unit - alpha) * fd_norm) \div Unit
    IN Clip(membership, -Unit, Unit)

\* variant: the two weights exchanged
calculate_membership_swapped(protein, cluster, cluster_id, fz, alpha_in) ==
    LET alpha == Clip(alpha_in, 0, Unit)
        perm_norm == get_permanence(fz.permanence_scores, protein, cluster_id)
        fd_norm == calculate_functional_dependency(protein, cluster, fz.protein_go_terms,
                                                   fz.tfidf_scores, cluster_id)
        membership == ((Unit - alpha) * perm_norm + alpha * fd_norm) \div Unit
    IN Clip(membership, -Unit, Unit)

\* Membership(p, c) (Eq.4); fz holds the frozen inputs of the call
calculate_membership(protein, cluster, cluster_id, fz, alpha_in) ==
    LET alpha == Clip(alpha_in, 0, Unit)
        perm_norm == get_permanence(fz.permanence_scores, protein, cluster_id)
        fd_norm == calculate_functional_dependency(protein, cluster, fz.protein_go_terms,
                                                   fz.tfidf_scores, cluster_id)
        membership == (alpha * perm_norm + (Unit - alpha) * fd_norm) \div Unit
    IN Clip(membership, -Unit, Unit)

\* <<intra_links, extra_links>>
calculate_intra_extra_links(protein, cluster, graph) ==
    IF protein \notin graph.nodes THEN <<0, 0>>
    ELSE LET neigh == neighbors(graph, protein)
         IN <<Cardinality(neigh \cap cluster), Cardinality(neigh \ cluster)>>

\* iteration order of a dict keyed by cluster id: insertion order, ids ascending
DictOrder(d) == SortedSeq(DOMAIN d)

RECURSIVE emax_loop(_, _, _, _, _, _, _)
\* the loop of find_emax_cluster over clusters.items() (in the order ord),
\* from position k
emax_loop(protein, contents, ord, neigh, k, max_connections, emax_cluster_id) ==
    IF k > Len(ord) THEN emax_cluster_id
    ELSE LET cluster_id == ord[k]
             connections == Cardinality(neigh \cap contents[cluster_id])
         IN IF protein \in contents[cluster_id]
            THEN emax_loop(protein, contents, ord, neigh, k + 1, max_connections,
                           emax_cluster_id)
            ELSE IF connections > max_connections
                 THEN emax_loop(protein, contents, ord, neigh, k + 1, connections, cluster_id)
                 ELSE emax_loop(protein, contents, ord, neigh, k + 1, max_connections,
                                emax_cluster_id)

\* variant: the clusters that hold the protein are candidates too
find_emax_cluster_noskip(protein, contents, graph) ==
    IF protein \notin graph.nodes THEN NoCluster
    ELSE LET neigh == neighbors(graph, protein)
             top == MaxOfSet({Cardinality(neigh \cap contents[c]) : c \in DOMAIN contents}
                             \cup {0})
         IN IF top = 0 THEN NoCluster
            ELSE CHOOSE c \in DOMAIN contents :
                    /\ Cardinality(neigh \cap contents[c]) = top
                    /\ \A d \in DOMAIN contents :
                          Cardinality(neigh \cap contents[d]) = top => c <= d

find_emax_cluster(protein, contents, graph) ==
    IF protein \notin graph.nodes THEN NoCluster
    ELSE emax_loop(protein, contents, DictOrder(contents), neighbors(graph, protein), 1, 0,
                   NoCluster)

\* ---- apply_overlap_reassignment, on a heap of set objects
\* variant: the working dict holds the caller's own set objects
NewRef_alias(ref) == ref

\* the object that `proteins.copy()` creates for the set held at ref
NewRef(ref) == ref + NumClusters

\* variant: empty clusters are not carried over
copy_refs_nonempty(heap, clusters) ==
    [cid \in {c \in DOMAIN clusters : heap[clusters[c]] # {}} |-> NewRef(clusters[cid])]

\* line 208: updated_clusters = {cid: proteins.copy() for cid, proteins in clusters.items()}
copy_refs(heap, clusters) == Dict([cid \in DOMAIN clusters |-> NewRef(clusters[cid])])

copy_heap(heap, clusters) ==
    LET upd == copy_refs(heap, clusters)
        fresh == {upd[cid] : cid \in DOMAIN upd} \ DOMAIN heap
    IN Dict([r \in DOMAIN heap \cup fresh |->
               IF r \in fresh
               THEN heap[clusters[CHOOSE cid \in DOMAIN upd : upd[cid] = r]]
               ELSE heap[r]])

\* the content of a dict of references
Contents(heap, refs) == Dict([cid \in DOMAIN refs |-> heap[refs[cid]]])

\* lines 211-213 and the enumeration of the set at line 217
all_proteins(heap, clusters) == UNION {heap[clusters[cid]] : cid \in DOMAIN clusters}

enumerate(order, S) == SelectSeq(order, LAMBDA p : p \in S)

\* lines 219-220
current_clusters_of(heap, updated_clusters, protein) ==
    SelectSeq(DictOrder(updated_clusters), LAMBDA cid : protein \in heap[updated_clusters[cid]])

SeqToSet(s) == {s[k] : k \in 1..Len(s)}

\* lines 226-232 with line 246: the baseline of the overlap test
max_current_memb(fz, heap, updated_clusters, protein, current_clusters) ==
    IF current_clusters = <<>> THEN 0
    ELSE MaxOfSet({calculate_membership(protein, heap[updated_clusters[cid]], cid, fz, fz.alpha) :
                      cid \in SeqToSet(current_clusters)})

\* lines 240-249: is the protein added to this candidate cluster
overlap_adds(fz, heap, updated_clusters, protein, base, cluster_id) ==
    LET test_cluster == heap[updated_clusters[cluster_id]] \cup {protein}
        memb_if_added == calculate_membership(protein, test_cluster, cluster_id, fz, fz.alpha)
        membership_gain == memb_if_added - base
    IN membership_gain > fz.overlap_tau

\* variant: the addition takes the protein out of the clusters it was in
overlap_step_move(fz, heap, updated_clusters, protein, current_clusters, base, cluster_id) ==
    IF cluster_id \in SeqToSet(current_clusters) THEN heap
    ELSE IF overlap_adds(fz, heap, updated_clusters, protein, base, cluster_id)
         THEN [r \in DOMAIN heap |->
                 IF r = updated_clusters[cluster_id] THEN heap[r] \cup {protein}
                 ELSE IF r \in {updated_clusters[c] : c \in SeqToSet(current_clusters)}
                      THEN heap[r] \ {protein}
                      ELSE heap[r]]
         ELSE heap

\* one iteration of the loop at line 235; returns the heap
overlap_step(fz, heap, updated_clusters, protein, current_clusters, base, cluster_id) ==
    IF cluster_id \in SeqToSet(current_clusters) THEN heap
    ELSE IF overlap_adds(fz, heap, updated_clusters, protein, base, cluster_id)
         THEN [heap EXCEPT ![updated_clusters[cluster_id]] = @ \cup {protein}]
         ELSE heap

\* variant: the gain in intra links is compared against transfer_tau
transfer_check_tau(fz, heap, updated_clusters, protein, cid, links, emax_cid) ==
    LET intra_links == links[1]
        extra_links == links[2]
    IN IF extra_links > intra_links /\ emax_cid # NoCluster /\ emax_cid # cid
       THEN LET emax_intra ==
                    calculate_intra_extra_links(protein, heap[updated_clusters[emax_cid]],
                                                fz.graph)[1]
            IN IF (emax_intra - intra_links) * Unit > fz.transfer_tau
               THEN emax_cid ELSE NoCluster
       ELSE NoCluster

\* lines 259-268, given the link counts of cid and the E_max cluster: the
\* destination of the transfer, or NoCluster
transfer_check(fz, heap, updated_clusters, protein, cid, links, emax_cid) ==
    LET intra_links == links[1]
        extra_links == links[2]
    IN IF extra_links > intra_links /\ emax_cid # NoCluster /\ emax_cid # cid
       THEN LET emax_intra ==
                    calculate_intra_extra_links(protein, heap[updated_clusters[emax_cid]],
                                                fz.graph)[1]
            IN IF emax_intra > intra_links THEN emax_cid ELSE NoCluster
       ELSE NoCluster

\* lines 256-268: the destination of a transfer out of cid, or NoCluster
transfer_target(fz, heap, updated_clusters, protein, cid) ==
    transfer_check(fz, heap, updated_clusters, protein, cid,
        calculate_intra_extra_links(protein, heap[updated_clusters[cid]], fz.graph),
        find_emax_cluster(protein, Contents(heap, updated_clusters), fz.graph))

\* variant: the protein is added to the destination but stays in the source
move_keep(heap, updated_clusters, protein, cid, emax_cid) ==
    IF emax_cid = NoCluster THEN heap
    ELSE [heap EXCEPT ![updated_clusters[emax_cid]] = @ \cup {protein}]

\* variant: the destination takes over every member of the source
move_merge(heap, updated_clusters, protein, cid, emax_cid) ==
    IF emax_cid = NoCluster THEN heap
    ELSE Dict([r \in DOMAIN heap |->
                 IF r = updated_clusters[emax_cid] THEN heap[r] \cup heap[updated_clusters[cid]]
                 ELSE IF r = updated_clusters[cid] THEN heap[r] \ {protein}
                      ELSE heap[r]])

\* variant: the protein is discarded from the source and added nowhere
move_discard_only(heap, updated_clusters, protein, cid, emax_cid) ==
    IF emax_cid = NoCluster THEN heap
    ELSE [heap EXCEPT ![updated_clusters[cid]] = @ \ {protein}]

\* lines 270-271: discard from cid, add to emax_cid (nothing for NoCluster)
move(heap, updated_clusters, protein, cid, emax_cid) ==
    IF emax_cid = NoCluster THEN heap
    ELSE Dict([r \in DOMAIN heap |->
                 IF r = updated_clusters[emax_cid] THEN heap[r] \cup {protein}
                 ELSE IF r = updated_clusters[cid] THEN heap[r] \ {protein}
                      ELSE heap[r]])

\* one iteration of the loop at line 255; returns the heap
transfer_step(fz, heap, updated_clusters, protein, cid) ==
    move(heap, updated_clusters, protein, cid,
         transfer_target(fz, heap, updated_clusters, protein, cid))

RECURSIVE overlap_loop(_, _, _, _, _, _, _, _)
\* the loop at line 235 over updated_clusters.items() (in the order ord)
overlap_loop(fz, heap, updated_clusters, ord, protein, current_clusters, base, k) ==
    IF k > Len(ord) THEN heap
    ELSE overlap_loop(fz,
             overlap_step(fz, heap, updated_clusters, protein, current_clusters, base, ord[k]),
             updated_clusters, ord, protein, current_clusters, base, k + 1)

RECURSIVE transfer_loop(_, _, _, _, _, _)
\* the loop at line 255 over current_clusters
transfer_loop(fz, heap, updated_clusters, protein, current_clusters, k) ==
    IF k > Len(current_clusters) THEN heap
    ELSE transfer_loop(fz,
             transfer_step(fz, heap, updated_clusters, protein, current_clusters[k]),
             updated_clusters, protein, current_clusters, k + 1)

\* lines 222-272 for one protein whose current_clusters list is known
process_current(fz, heap, updated_clusters, protein, current_clusters) ==
    IF current_clusters = <<>> THEN heap
    ELSE transfer_loop(fz,
             overlap_loop(fz, heap, updated_clusters, DictOrder(updated_clusters), protein,
                 current_clusters,
                 max_current_memb(fz, heap, updated_clusters, protein, current_clusters), 1),
             updated_clusters, protein, current_clusters, 1)

\* the body of the loop at line 217 for one protein
process_protein(fz, heap, updated_clusters, protein) ==
    process_current(fz, heap, updated_clusters, protein,
                    current_clusters_of(heap, updated_clusters, protein))

RECURSIVE protein_loop(_, _, _, _, _)
protein_loop(fz, heap, updated_clusters, todo, k) ==
    IF k > Len(todo) THEN heap
    ELSE protein_loop(fz, process_protein(fz, heap, updated_clusters, todo[k]),
                      updated_clusters, todo, k + 1)

\* the whole call: the heap it leaves, with the working objects still in it
apply_overlap_reassignment(fz, heap, clusters, order) ==
    protein_loop(fz, copy_heap(heap, clusters), copy_refs(heap, clusters),
                 enumerate(order, all_proteins(heap, clusters)), 1)

\* the caller's objects once the call has returned and its locals are dropped
caller_heap(heap_after, heap_before) == Dict([r \in DOMAIN heap_before |-> heap_after[r]])

\* ---------------------------------------------------- lea/fitness_membership.py
\* the metrics of one non-empty cluster of the reassigned partition
\* (lines 109-160); raised: graph.neighbors() of a protein that is no node
cluster_metrics(fz, cluster, cluster_id) ==
    LET cluster_size == Cardinality(cluster)
        cluster_membership_sum ==
            SumSet(cluster, [p \in cluster |->
                                calculate_membership(p, cluster, cluster_id, fz, fz.alpha)])
        intra_edges == PairEdges(fz.graph, cluster)
        max_possible_edges == (cluster_size * (cluster_size - 1)) \div 2
        cohesion == IF max_possible_edges > 0
                    THEN (intra_edges * Unit) \div max_possible_edges ELSE 0
        cluster_fd_sum ==
            SumSet(cluster, [p \in cluster |->
                                calculate_functional_dependency(p, cluster, fz.protein_go_terms,
                                                                fz.tfidf_scores, cluster_id)])
    IN [raised |-> ~(cluster \subseteq fz.graph.nodes),
        membership |-> (cluster_membership_sum \div cluster_size) * cluster_size,
        cohesion |-> cohesion * cluster_size,
        inter_edges |-> SumSet(cluster \cap fz.graph.nodes,
                               [p \in cluster \cap fz.graph.nodes |->
                                   Cardinality(neighbors(fz.graph, p) \ cluster)]),
        go_coherence |-> (cluster_fd_sum \div cluster_size) * cluster_size]

\* lines 162-187, given the per-cluster metrics m of the non-empty clusters
combine_metrics(fz, optimized_clusters, nonempty, m, total_proteins, l_inter, l_fragment) ==
    LET avg_membership == SumSet(nonempty, [cid \in nonempty |-> m[cid].membership])
                              \div total_proteins
        avg_intra_cohesion == SumSet(nonempty, [cid \in nonempty |-> m[cid].cohesion])
                                  \div total_proteins
        avg_go_coherence == SumSet(nonempty, [cid \in nonempty |-> m[cid].go_coherence])
                                \div total_proteins
        inter_coupling == SumSet(nonempty, [cid \in nonempty |-> m[cid].inter_edges])
        total_edges == number_of_edges(fz.graph)
        normalized_inter_coupling ==
            IF total_edges > 0 THEN (inter_coupling * Unit) \div total_edges ELSE 0
        num_clusters == Cardinality(nonempty)
        num_singletons == Cardinality({cid \in nonempty :
                                          Cardinality(optimized_clusters[cid]) = 1})
        fragmentation == IF num_clusters > 0 THEN (num_singletons * Unit) \div num_clusters
                         ELSE Unit
    IN IF \E cid \in nonempty : m[cid].raised
       THEN [raised |-> TRUE, value |-> 0]
       ELSE IF total_proteins = 0
            THEN [raised |-> FALSE, value |-> Penalty]
            ELSE [raised |-> FALSE,
                  value |-> avg_membership + avg_intra_cohesion + avg_go_coherence
                            - (l_inter * normalized_inter_coupling) \div Unit
                            - (l_fragment * fragmentation) \div Unit]

\* lines 105-160 for the non-empty clusters, then lines 162-187
score_nonempty(fz, optimized_clusters, nonempty, l_inter, l_fragment) ==
    combine_metrics(fz, optimized_clusters, nonempty,
        Dict([cid \in nonempty |-> cluster_metrics(fz, optimized_clusters[cid], cid)]),
        SumSet(nonempty, [cid \in nonempty |-> Cardinality(optimized_clusters[cid])]),
        l_inter, l_fragment)

\* lines 94-187: the scalar for a reassigned partition (cluster id -> member set)
score_partition(fz, optimized_clusters, l_inter, l_fragment) ==
    score_nonempty(fz, optimized_clusters,
        {cid \in DOMAIN optimized_clusters : optimized_clusters[cid] # {}},
        l_inter, l_fragment)

\* the parameters of one call, bound to the evaluator's frozen inputs
call_params(self, a, tau, ttau) ==
    [graph |-> self.graph, protein_go_terms |-> self.protein_go_terms,
     tfidf_scores |-> self.tfidf_scores, permanence_scores |-> self.permanence_scores,
     alpha |-> a, overlap_tau |-> tau, transfer_tau |-> ttau]

\* MembershipFitness.compute_fitness: the value (or the exception), the
\* caller's heap after the call, and the local optimized_clusters
fitness_result(r, heap_after, optimized_clusters) ==
    [raised |-> r.raised, value |-> r.value, heap |-> heap_after,
     partition |-> optimized_clusters]

\* lines 94-187 on the heap h2 the engine call left
fitness_of(fz, heap, h2, optimized_clusters, l_inter, l_fragment) ==
    fitness_result(score_partition(fz, optimized_clusters, l_inter, l_fragment),
                   caller_heap(h2, heap), optimized_clusters)

\* lines 79-89 with the clipped parameters, then the scoring
fitness_with(fz, heap, clusters, order, h2, l_inter, l_fragment) ==
    fitness_of(fz, heap, h2, Contents(h2, copy_refs(heap, clusters)), l_inter, l_fragment)

compute_fitness(self, heap, clusters, order, solution, l_inter, l_fragment) ==
    LET a == Clip(solution[1], 0, Unit)
        tau == Clip(solution[2], 0, Unit)
        transfer_tau == Clip(solution[3], 0, Unit)
        fz == call_params(self, a, tau, transfer_tau)
    IN fitness_with(fz, heap, clusters, order,
                    apply_overlap_reassignment(fz, heap, clusters, order), l_inter, l_fragment)

\* create_fitness_function: the objective the optimizer minimises
fitness_func(self, heap, clusters, order, solution) ==
    LET r == compute_fitness(self, heap, clusters, order, solution, lambda_inter,
                             lambda_fragment)
    IN [raised |-> r.raised, value |-> -r.value, heap |-> r.heap, partition |-> r.partition]

\* ------------------------------------------------------------ table queries
RECURSIVE tfidf_after_queries(_, _)
\* the TF-IDF table after a set of get_tfidf queries <<cluster id, term>>
tfidf_after_queries(tfidf_scores, queries) ==
    IF queries = {} THEN tfidf_scores
    ELSE LET q == CHOOSE x \in queries : TRUE
         IN tfidf_after_queries(tfidf_after_get(tfidf_scores, q[1], q[2]), queries \ {q})

RECURSIVE permanence_after_queries(_, _)
\* the permanence table after a set of lookups <<protein, cluster id>>
permanence_after_queries(permanence_scores, queries) ==
    IF queries = {} THEN permanence_scores
    ELSE LET q == CHOOSE x \in queries : TRUE
         IN permanence_after_queries(permanence_after_get(permanence_scores, q[1], q[2]),
                                     queries \ {q})

\* the get_tfidf queries of calculate_membership / calculate_functional_dependency
\* for the proteins ps and the cluster ids cids
tfidf_queries(protein_go_terms, ps, cids) ==
    UNION {{<<cid, t>> : cid \in cids, t \in GoOf(protein_go_terms, p)} : p \in ps}

permanence_queries(ps, cids) == {<<p, cid>> : p \in ps, cid \in cids}

\* ------------------------------------------------------------------- state
VARIABLES
    graph,              \* the PPI graph
    heap,               \* reference -> set of proteins (the set objects)
    initial_clusters,   \* cluster id -> reference: the caller's partition
    protein_go_terms,   \* protein -> set of terms
    tfidf_scores,       \* GOTFIDF.tfidf_scores
    permanence_scores,  \* protein -> (cluster id -> score)
    order,              \* the order in which this process enumerates a set of proteins
    clusters0,          \* history: the content of the partition when it was handed over
    alpha,              \* arguments of the running apply_overlap_reassignment call
    overlap_tau,
    updated_clusters,   \* cluster id -> reference: the working partition
    epc,                \* position in apply_overlap_reassignment
    todo,               \* the enumeration of all_proteins
    pidx,               \* index of the protein being processed
    current_clusters,   \* its current_clusters list
    cidx,               \* index in the running inner loop
    last_call,          \* history: the latest evaluator call and what it returned
    population_size,    \* LotusEffectAlgorithm fields
    max_function_evaluations,
    population,
    best_solution,
    best_fitness,
    function_evaluations,
    lpc,                \* position in optimize / update_positions / evaluate_fitness
    i,                  \* loop index of update_positions / evaluate_fitness
    last_fitness,       \* history: what the latest fitness call returned
    clipped,            \* the last position update left the bounds before np.clip
    seeded,             \* random_seed is not None
    stream,             \* seeded: draws made (first run) / still to be made (second run)
    run,                \* which run of optimize_communities this is
    first_result,       \* history: what the first run returned
    position_updates,   \* history: individuals moved by update_positions (line 80)
    fitness_calls,      \* history: calls of fitness_function made (line 98)
    best_source         \* history: the individual best_solution was copied from

engineVars == <<alpha, overlap_tau, updated_clusters, epc, todo, pidx, current_clusters, cidx>>
frozenVars == <<graph, initial_clusters, protein_go_terms, order, clusters0>>
tableVars == <<tfidf_scores, permanence_scores>>
evalVars == <<last_call>>
leaVars == <<population_size, max_function_evaluations, population, best_solution, best_fitness,
             function_evaluations, lpc, i, last_fitness, clipped, seeded, stream, run,
            first_result,
                   position_updates, fitness_calls, best_source>>
vars == <<graph, heap, initial_clusters, protein_go_terms, tfidf_scores, permanence_scores,
          order, clusters0, engineVars, evalVars, leaVars>>

\* the fields of the MembershipFitness object
Evaluator ==
    [graph |-> graph, protein_go_terms |-> protein_go_terms, tfidf_scores |-> tfidf_scores,
     permanence_scores |-> permanence_scores]

\* the frozen inputs of a call, transfer_tau at its default (line 187)
Frozen(a, tau) == call_params(Evaluator, a, tau, 0)

\* ------------------------------------------------------------------ inputs
AllEdges(N) == {{a, b} : a \in N, b \in N} \ {{a} : a \in N}
\* every graph on the proteins, and every graph that lacks the last protein
Graphs ==
    {[nodes |-> N, edges |-> E] :
        N \in {Proteins}, E \in SUBSET AllEdges(Proteins)}
    \cup {[nodes |-> Proteins \ {NumProteins}, edges |-> E] :
             E \in {{}, AllEdges(Proteins \ {NumProteins})}}

\* disjoint partitions: every protein in exactly one cluster (clusters may be empty)
Partitions ==
    {[cid \in ClusterIds |-> {p \in Proteins : f[p] = cid}] : f \in [Proteins -> ClusterIds]}

\* annotation maps: the proteins that have terms, each with a non-empty term set
Annotations ==
    UNION {[S -> (SUBSET Terms) \ {{}}] : S \in SUBSET Proteins}

Perms(S) == {s \in [1..Cardinality(S) -> S] : \A a \in S : \E k \in DOMAIN s : s[k] = a}

AlphaGrid == {0, Unit \div 2, Unit}
Tau21 == (21 * Unit) \div 10
TauGrid == {0, Unit \div 2, Tau21}

InputRef(cid) == cid + 1

\* the evaluator's inputs: graph, partition, annotations and the tables built
\* once from them (main.py builds GOTFIDF and the permanence table first)
InitTables ==
    /\ graph \in Graphs
    /\ \E part \in Partitions :
         /\ heap = [r \in {InputRef(cid) : cid \in ClusterIds} |-> part[r - 1]]
         /\ initial_clusters = [cid \in ClusterIds |-> InputRef(cid)]
         /\ protein_go_terms \in Annotations
         /\ tfidf_scores = compute_tf_idf(part, protein_go_terms)
         /\ permanence_scores = calculate_permanence_all_proteins(part, graph)
         /\ clusters0 = part

\* a process enumerates a set of proteins in one order, fixed by its hash seed
InitInputs ==
    /\ InitTables
    /\ order \in Perms(Proteins)

\* ------------------------------------------- apply_overlap_reassignment, stepwise
NoCall == [kind |-> "none", solution |-> <<>>, raised |-> FALSE, value |-> 0,
           partition |-> <<>>, later |-> FALSE]
NoResult == [best_solution |-> <<>>, best_fitness |-> 0]

\* no evaluator call has been made
IdleEval == last_call = NoCall

\* no optimizer has been constructed
IdleLEA ==
    /\ population_size = 0
    /\ max_function_evaluations = 0
    /\ population = <<>>
    /\ best_solution = <<>>
    /\ best_fitness = Inf
    /\ function_evaluations = 0
    /\ lpc = "none"
    /\ i = 0
    /\ last_fitness = Inf
    /\ clipped = FALSE
    /\ seeded = FALSE
    /\ stream = <<>>
    /\ run = 0
    /\ first_result = NoResult
    /\ position_updates = 0
    /\ fitness_calls = 0
    /\ best_source = 0

\* no apply_overlap_reassignment call is being stepped through
IdleEngine ==
    /\ alpha = 0
    /\ overlap_tau = 0
    /\ updated_clusters = initial_clusters
    /\ epc = "none"
    /\ todo = <<>>
    /\ pidx = 1
    /\ current_clusters = <<>>
    /\ cidx = 1

InitEngine ==
    /\ InitInputs
    /\ alpha \in AlphaGrid
    /\ overlap_tau \in TauGrid
    /\ updated_clusters = initial_clusters
    /\ epc = "call"
    /\ todo = <<>>
    /\ pidx = 1
    /\ current_clusters = <<>>
    /\ cidx = 1
    /\ IdleEval
    /\ IdleLEA

\* lines 208-215
EngCopy ==
    /\ epc = "call"
    /\ heap' = copy_heap(heap, initial_clusters)
    /\ updated_clusters' = copy_refs(heap, initial_clusters)
    /\ todo' = enumerate(order, all_proteins(heap', initial_clusters))
    /\ pidx' = 1
    /\ epc' = "protein"
    /\ UNCHANGED <<frozenVars, tableVars, alpha, overlap_tau, current_clusters, cidx, evalVars,
                   leaVars>>

\* lines 217-232: next protein, its current clusters and their memberships
EngBeginProtein ==
    /\ epc = "protein"
    /\ pidx <= Len(todo)
    /\ LET protein == todo[pidx]
           cur == current_clusters_of(heap, updated_clusters, protein)
       IN /\ current_clusters' = cur
          /\ IF cur = <<>>
             THEN /\ pidx' = pidx + 1
                  /\ epc' = "protein"
                  /\ UNCHANGED tableVars
             ELSE /\ pidx' = pidx
                  /\ epc' = "overlap"
                  /\ tfidf_scores' = tfidf_after_queries(tfidf_scores,
                         tfidf_queries(protein_go_terms, {protein}, SeqToSet(cur)))
                  /\ permanence_scores' = permanence_after_queries(permanence_scores,
                         permanence_queries({protein}, SeqToSet(cur)))
    /\ cidx' = 1
    /\ UNCHANGED <<frozenVars, heap, alpha, overlap_tau, updated_clusters, todo, evalVars,
                   leaVars>>

\* lines 235-252: one candidate cluster of the overlap loop
EngOverlap ==
    /\ epc = "overlap"
    /\ LET ord == DictOrder(updated_clusters)
           protein == todo[pidx]
           fz == Frozen(alpha, overlap_tau)
           base == max_current_memb(fz, heap, updated_clusters, protein, current_clusters)
           cluster_id == ord[cidx]
       IN /\ heap' = overlap_step(fz, heap, updated_clusters, protein, current_clusters,
                                  base, cluster_id)
          /\ IF cluster_id \in SeqToSet(current_clusters)
             THEN UNCHANGED tableVars
             ELSE /\ tfidf_scores' = tfidf_after_queries(tfidf_scores,
                         tfidf_queries(protein_go_terms, {protein}, {cluster_id}))
                  /\ permanence_scores' = permanence_after_queries(permanence_scores,
                         permanence_queries({protein}, {cluster_id}))
          /\ IF cidx < Len(ord)
             THEN cidx' = cidx + 1 /\ epc' = "overlap"
             ELSE cidx' = 1 /\ epc' = "transfer"
    /\ UNCHANGED <<frozenVars, alpha, overlap_tau, updated_clusters, todo, pidx,
                   current_clusters, evalVars, leaVars>>

\* lines 255-272: one source cluster of the transfer loop
EngTransfer ==
    /\ epc = "transfer"
    /\ LET protein == todo[pidx]
           fz == Frozen(alpha, overlap_tau)
       IN heap' = transfer_step(fz, heap, updated_clusters, protein, current_clusters[cidx])
    /\ IF cidx < Len(current_clusters)
       THEN cidx' = cidx + 1 /\ epc' = "transfer" /\ pidx' = pidx
       ELSE cidx' = 1 /\ epc' = "protein" /\ pidx' = pidx + 1
    /\ UNCHANGED <<frozenVars, tableVars, alpha, overlap_tau, updated_clusters, todo,
                   current_clusters, evalVars, leaVars>>

\* line 274
EngReturn ==
    /\ epc = "protein"
    /\ pidx > Len(todo)
    /\ epc' = "done"
    /\ UNCHANGED <<frozenVars, tableVars, heap, alpha, overlap_tau, updated_clusters, todo,
                   pidx, current_clusters, cidx, evalVars, leaVars>>

NextEngine == EngCopy \/ EngBeginProtein \/ EngOverlap \/ EngTransfer \/ EngReturn

SpecEngine == InitEngine /\ [][NextEngine]_vars

\* ----------------------------------------------- the evaluator, call by call
\* the parameter vectors the fitness calls are made with
EvalSolutions ==
    {<<a, tt[1], tt[2]>> : a \in AlphaGrid, tt \in {<<0, Unit>>, <<Unit \div 2, 0>>}}

\* the table lookups of one engine call and of the scoring of its result
CallTfidfQueries ==
    tfidf_queries(protein_go_terms, all_proteins(heap, initial_clusters), DOMAIN initial_clusters)
CallPermanenceQueries ==
    permanence_queries(all_proteins(heap, initial_clusters), DOMAIN initial_clusters)

\* one process; the inputs are enumerated under every labelling of the proteins
InitEval ==
    /\ InitTables
    /\ order = SortedSeq(Proteins)
    /\ IdleEngine
    /\ IdleEval
    /\ IdleLEA

\* fitness_obj.compute_fitness(solution)
Evaluate ==
    /\ \E solution \in EvalSolutions :
         \E r \in {compute_fitness(Evaluator, heap, initial_clusters, order, solution,
                                   lambda_inter, lambda_fragment)} :
            /\ heap' = r.heap
            /\ last_call' = [kind |-> "fitness", solution |-> solution, raised |-> r.raised,
                             value |-> r.value, partition |-> r.partition,
                             later |-> last_call # NoCall]
    /\ tfidf_scores' = tfidf_after_queries(tfidf_scores, CallTfidfQueries)
    /\ permanence_scores' = permanence_after_queries(permanence_scores, CallPermanenceQueries)
    /\ UNCHANGED <<frozenVars, engineVars, leaVars>>

\* a direct call of apply_overlap_reassignment (main.py line 183, optimize.py line 88)
Reassign ==
    /\ \E a \in {Unit}, tau \in {0}, ttau \in {0, Unit} :
         \E h2 \in {apply_overlap_reassignment(call_params(Evaluator, a, tau, ttau), heap,
                                               initial_clusters, order)} :
            /\ heap' = caller_heap(h2, heap)
            /\ last_call' = [kind |-> "reassign", solution |-> <<a, tau, ttau>>,
                             raised |-> FALSE,
                             value |-> 0,
                             partition |-> Contents(h2, copy_refs(heap, initial_clusters)),
                             later |-> last_call # NoCall]
    /\ tfidf_scores' = tfidf_after_queries(tfidf_scores, CallTfidfQueries)
    /\ permanence_scores' = permanence_after_queries(permanence_scores, CallPermanenceQueries)
    /\ UNCHANGED <<frozenVars, engineVars, leaVars>>

\* go_tfidf.get_tfidf(cluster_id, go_term), for a cluster id of the partition
\* or one that is not, and any term
Query ==
    /\ \E cid \in {0, NumClusters}, t \in Terms :
         /\ tfidf_scores' = tfidf_after_get(tfidf_scores, cid, t)
         /\ last_call' = [kind |-> "query", solution |-> <<cid, t>>, raised |-> FALSE,
                          value |-> get_tfidf(tfidf_scores, cid, t), partition |-> <<>>,
                          later |-> last_call # NoCall]
    /\ UNCHANGED <<frozenVars, heap, permanence_scores, engineVars, leaVars>>

NextEval == Evaluate \/ Reassign \/ Query

SpecEval == InitEval /\ [][NextEval]_vars

\* --------------------------------------------- lea/lotus_effect_algorithm.py
\* np.random.uniform(lower, upper): the initial components
InitGrid == {0, Unit}
\* levy_flight(): the steps, small and large, of either sign
LevySteps == {-(Unit \div 2), -(Unit \div 4), 0, Unit \div 4, Unit \div 2}

Vectors(S) == [1..dimensions -> S]

\* variant: update_positions without the budget check
update_allowed_always(fe, max_fe) == TRUE
\* line 78: update_positions goes on
update_allowed(fe, max_fe) == fe < max_fe

\* variant: evaluate_fitness without the budget check
evaluate_allowed_always(fe, max_fe) == TRUE
\* line 96: evaluate_fitness goes on
evaluate_allowed(fe, max_fe) == fe < max_fe

\* variant: the loop stops one evaluation short of the budget
loop_continues_early(fe, max_fe) == fe < max_fe - 1
\* line 117: the loop of optimize goes on
loop_continues(fe, max_fe) == fe < max_fe

\* lines 80-82: the new position before np.clip
raw_position(pos, best, levy) ==
    [d \in 1..dimensions |->
        pos[d] + (lea_alpha * (best[d] - pos[d])) \div Unit + levy[d]]

\* variant: the step is applied without np.clip
new_position_unclipped(pos, best, levy) == raw_position(pos, best, levy)
\* lines 80-87: the new position of an individual
new_position(pos, best, levy) ==
    [d \in 1..dimensions |->
        Clip(raw_position(pos, best, levy)[d], lower_bounds[d], upper_bounds[d])]

\* the draws that keep the new position on the grid
OnGrid(pos, best, levy) ==
    \A d \in 1..dimensions : raw_position(pos, best, levy)[d] % (Unit \div 2) = 0

\* variant: best_solution is the individual's own array, so moving the
\* individual moves the best vector
best_after_move_alias(best, source, k, moved) == IF source = k THEN moved ELSE best
\* lines 54 and 103: best_solution is a copy (.copy()), untouched when
\* individual k moves to `moved` (line 81)
best_after_move(best, source, k, moved) == best

\* variant: a better value is kept without the vector it belongs to
improve_fitness_only(best, best_fit, x, fitness) ==
    IF fitness < best_fit THEN [solution |-> best, fitness |-> fitness]
    ELSE [solution |-> best, fitness |-> best_fit]
\* variant: an equal fitness value replaces the best pair too
improve_or_equal(best, best_fit, x, fitness) ==
    IF fitness <= best_fit THEN [solution |-> x, fitness |-> fitness]
    ELSE [solution |-> best, fitness |-> best_fit]
\* lines 101-103: the best pair after a fitness value for the vector x
improve(best, best_fit, x, fitness) ==
    IF fitness < best_fit THEN [solution |-> x, fitness |-> fitness]
    ELSE [solution |-> best, fitness |-> best_fit]

\* the inputs of the optimizer runs: a chain 1 - 2 (- 3), also with the last
\* protein missing from the graph (the scoring then raises), protein 1 alone
\* in cluster 0, annotations on protein 1 or none
LeaGraphs == {g \in Graphs : {1, 2} \in g.edges /\ g.edges \subseteq {{1, 2}, {2, 3}}}
LeaPartitions == {part \in Partitions : part[0] = {1} /\ part[1] = Proteins \ {1}}
LeaAnnotations == {a \in Annotations : DOMAIN a \subseteq {1}}

InitLeaInputs ==
    /\ graph \in LeaGraphs
    /\ \E part \in LeaPartitions :
         /\ heap = [r \in {InputRef(cid) : cid \in ClusterIds} |-> part[r - 1]]
         /\ initial_clusters = [cid \in ClusterIds |-> InputRef(cid)]
         /\ protein_go_terms \in LeaAnnotations
         /\ tfidf_scores = compute_tf_idf(part, protein_go_terms)
         /\ permanence_scores = calculate_permanence_all_proteins(part, graph)
         /\ clusters0 = part

\* LotusEffectAlgorithm.__init__ (lines 34-60)
InitOptimizer ==
    /\ population \in [1..population_size -> Vectors(InitGrid)]
    /\ best_solution = population[1]
    /\ best_fitness = Inf
    /\ function_evaluations = 0
    /\ lpc = "while"
    /\ i = 0
    /\ last_fitness = Inf
    /\ clipped = FALSE
    /\ position_updates = 0
    /\ fitness_calls = 0
    /\ best_source = 1

\* an unseeded run of optimize_communities
InitLEA ==
    /\ InitLeaInputs
    /\ order = SortedSeq(Proteins)
    /\ IdleEngine
    /\ IdleEval
    /\ population_size \in 1..MaxPop
    /\ max_function_evaluations \in 0..MaxEvals
    /\ InitOptimizer
    /\ seeded = FALSE
    /\ stream = <<>>
    /\ run = 1
    /\ first_result = NoResult

\* line 117, condition true: another round of update_positions / evaluate_fitness
LeaWhile ==
    /\ lpc = "while"
    /\ loop_continues(function_evaluations, max_function_evaluations)
    /\ lpc' = "update"
    /\ i' = 1
    /\ UNCHANGED <<frozenVars, tableVars, heap, engineVars, evalVars, population_size,
                   max_function_evaluations, population, best_solution, best_fitness,
                   function_evaluations, last_fitness, clipped, seeded, stream, run, first_result,
                   position_updates, fitness_calls, best_source>>

\* a draw of the generator: free when unseeded or in the first seeded run
\* (which fixes the seed's sequence), the recorded one in the second run
Draws(candidates) ==
    IF seeded /\ run = 2 THEN {Head(stream)} \cap candidates ELSE candidates
StreamAfter(draw) ==
    IF ~seeded THEN stream
    ELSE IF run = 2 THEN Tail(stream) ELSE Append(stream, draw)

\* lines 77-89: update_positions moves individual i and counts one evaluation
LeaUpdateStep ==
    /\ lpc = "update"
    /\ i <= population_size
    /\ update_allowed(function_evaluations, max_function_evaluations)
    /\ \E levy \in Draws({l \in Vectors(LevySteps) : OnGrid(population[i], best_solution, l)}) :
         /\ population' = [population EXCEPT
                              ![i] = new_position(population[i], best_solution, levy)]
         /\ clipped' = (raw_position(population[i], best_solution, levy)
                           # new_position(population[i], best_solution, levy))
         /\ best_solution' = best_after_move(best_solution, best_source, i,
                                             new_position(population[i], best_solution, levy))
         /\ stream' = StreamAfter(levy)
    /\ function_evaluations' = function_evaluations + 1
    /\ i' = i + 1
    /\ position_updates' = position_updates + 1
    /\ UNCHANGED <<frozenVars, tableVars, heap, engineVars, evalVars, population_size,
                   max_function_evaluations, best_fitness, lpc, last_fitness,
                   seeded, run, first_result, fitness_calls, best_source>>

\* update_positions returns: loop exhausted, or the budget check at line 78
LeaUpdateExit ==
    /\ lpc = "update"
    /\ i > population_size \/ ~update_allowed(function_evaluations, max_function_evaluations)
    /\ lpc' = "evaluate"
    /\ i' = 1
    /\ UNCHANGED <<frozenVars, tableVars, heap, engineVars, evalVars, population_size,
                   max_function_evaluations, population, best_solution, best_fitness,
                   function_evaluations, last_fitness, clipped, seeded, stream, run, first_result,
                   position_updates, fitness_calls, best_source>>

\* lines 95-104: evaluate_fitness calls the objective on individual i
LeaEvalStep ==
    /\ lpc = "evaluate"
    /\ i <= population_size
    /\ evaluate_allowed(function_evaluations, max_function_evaluations)
    /\ \E r \in {fitness_func(Evaluator, heap, initial_clusters, order, population[i])} :
         /\ heap' = r.heap
         /\ IF r.raised
            THEN /\ lpc' = "raised"
                 /\ UNCHANGED <<best_solution, best_fitness, function_evaluations, i,
                                last_fitness, best_source>>
            ELSE /\ \E b \in {improve(best_solution, best_fitness, population[i], r.value)} :
                      /\ best_solution' = b.solution
                      /\ best_fitness' = b.fitness
                      /\ best_source' = IF b = [solution |-> best_solution,
                                                fitness |-> best_fitness]
                                        THEN best_source ELSE i
                 /\ last_fitness' = r.value
                 /\ function_evaluations' = function_evaluations + 1
                 /\ i' = i + 1
                 /\ lpc' = lpc
    /\ tfidf_scores' = tfidf_after_queries(tfidf_scores, CallTfidfQueries)
    /\ permanence_scores' = permanence_after_queries(permanence_scores, CallPermanenceQueries)
    /\ fitness_calls' = fitness_calls + 1
    /\ UNCHANGED <<frozenVars, engineVars, evalVars, population_size,
                   max_function_evaluations, population, clipped, seeded, stream, run,
                   first_result, position_updates>>

\* evaluate_fitness returns: loop exhausted (line 106), or the check at line 96
LeaEvalExit ==
    /\ lpc = "evaluate"
    /\ i > population_size
       \/ ~evaluate_allowed(function_evaluations, max_function_evaluations)
    /\ lpc' = "while"
    /\ i' = 0
    /\ UNCHANGED <<frozenVars, tableVars, heap, engineVars, evalVars, population_size,
                   max_function_evaluations, population, best_solution, best_fitness,
                   function_evaluations, last_fitness, clipped, seeded, stream, run, first_result,
                   position_updates, fitness_calls, best_source>>

\* line 117, condition false, and line 124: optimize returns
LeaReturn ==
    /\ lpc = "while"
    /\ ~loop_continues(function_evaluations, max_function_evaluations)
    /\ lpc' = "done"
    /\ UNCHANGED <<frozenVars, tableVars, heap, engineVars, evalVars, population_size,
                   max_function_evaluations, population, best_solution, best_fitness,
                   function_evaluations, i, last_fitness, clipped, seeded, stream, run,
                   first_result,
                   position_updates, fitness_calls, best_source>>

\* optimize.py lines 76-100: the final reassignment with the best vector
OcFinish ==
    /\ lpc = "done"
    /\ \E h2 \in {apply_overlap_reassignment(
                      call_params(Evaluator, Clip(best_solution[1], 0, Unit),
                                  Clip(best_solution[2], 0, Unit),
                                  Clip(best_solution[3], 0, Unit)),
                      heap, initial_clusters, order)} :
         /\ heap' = caller_heap(h2, heap)
         /\ last_call' = [kind |-> "reassign", solution |-> best_solution, raised |-> FALSE,
                          value |-> best_fitness,
                          partition |-> Contents(h2, copy_refs(heap, initial_clusters)),
                          later |-> FALSE]
    /\ tfidf_scores' = tfidf_after_queries(tfidf_scores, CallTfidfQueries)
    /\ permanence_scores' = permanence_after_queries(permanence_scores, CallPermanenceQueries)
    /\ lpc' = "returned"
    /\ UNCHANGED <<frozenVars, engineVars, population_size, max_function_evaluations,
                   population, best_solution, best_fitness, function_evaluations, i,
                   last_fitness, clipped, seeded, stream, run, first_result,
                   position_updates, fitness_calls, best_source>>

NextLEA ==
    \/ LeaWhile \/ LeaUpdateStep \/ LeaUpdateExit \/ LeaEvalStep \/ LeaEvalExit
    \/ LeaReturn \/ OcFinish

SpecLEA == InitLEA /\ [][NextLEA]_vars

\* the runs on the chain 1 - 2 - 3, and on the graph that lacks the last
\* protein, without annotations, the component transfer_tau (which the engine
\* does not read) starting at its lower bound
InitFairLEA ==
    /\ InitLEA
    /\ Cardinality(graph.edges) = 2 \/ graph.nodes # Proteins
    /\ DOMAIN protein_go_terms = {}
    /\ \A k \in 1..population_size : population[k][dimensions] = lower_bounds[dimensions]

\* the steps that call no fitness function
LeaControl == LeaWhile \/ LeaUpdateStep \/ LeaUpdateExit \/ LeaEvalExit \/ LeaReturn

\* what a fitness call that returns does to the position in the program
\* (lines 96-99): the steps of LeaEvalStep that raise nothing are these steps
LeaEvalAdvance ==
    /\ lpc = "evaluate"
    /\ i <= population_size
    /\ evaluate_allowed(function_evaluations, max_function_evaluations)
    /\ lpc' = lpc
    /\ i' = i + 1

\* the same for the final reassignment of optimize_communities
OcFinishAdvance ==
    /\ lpc = "done"
    /\ lpc' = "returned"
    /\ i' = i

\* the program is sequential and runs on: a step that can be taken is taken.
\* The fairness on the calls is stated on the position in the program, which
\* they are enabled by and always advance.
FairSpecLEA ==
    /\ InitFairLEA
    /\ [][NextLEA]_vars
    /\ WF_vars(LeaControl)
    /\ WF_<<lpc, i>>(LeaEvalAdvance)
    /\ WF_<<lpc, i>>(OcFinishAdvance)

\* ------------------------------------------------ two runs with the same seed
\* the enumeration orders of all_proteins a process may have
LeaOrders == {SortedSeq(Proteins),
              [k \in 1..NumProteins |-> SortedSeq(Proteins)[NumProteins + 1 - k]]}

\* the budgets of the paired runs: one round over the population and a half
PairBudgets == {2, 3}

\* the first run of optimize_communities with random_seed set: np.random.seed
\* fixes the sequence of draws, recorded in stream as they are made
InitPair ==
    /\ InitLeaInputs
    /\ order \in LeaOrders
    /\ IdleEngine
    /\ IdleEval
    /\ population_size = 1
    /\ max_function_evaluations \in PairBudgets
    /\ InitOptimizer
    /\ seeded = TRUE
    /\ stream = <<population>>
    /\ run = 1
    /\ first_result = NoResult

\* the second run, in the same or in a new process (its own enumeration order
\* of all_proteins), on the same inputs with the same seed: the generator
\* repeats its draws
PairSecondRun ==
    /\ run = 1
    /\ lpc = "returned"
    /\ first_result' = [best_solution |-> best_solution, best_fitness |-> best_fitness]
    /\ run' = 2
    /\ order' \in LeaOrders
    /\ population' = Head(stream)
    /\ stream' = Tail(stream)
    /\ best_solution' = population'[1]
    /\ best_fitness' = Inf
    /\ function_evaluations' = 0
    /\ lpc' = "while"
    /\ i' = 0
    /\ last_fitness' = Inf
    /\ clipped' = FALSE
    /\ position_updates' = 0
    /\ fitness_calls' = 0
    /\ best_source' = 1
    /\ last_call' = NoCall
    /\ UNCHANGED <<graph, initial_clusters, protein_go_terms, clusters0, tableVars, heap,
                   engineVars, population_size, max_function_evaluations, seeded>>

NextPair == NextLEA \/ PairSecondRun

SpecPair == InitPair /\ [][NextPair]_vars

\* ------------------------------------------------- the scoring functions alone
\* permanence, membership and the TF-IDF table called directly, on a universe
\* one protein larger than the engine's
ScoreProteins == 1..(NumProteins + 1)

\* every graph on these proteins, and every graph that lacks protein 1
ScoreGraphs ==
    {[nodes |-> N, edges |-> E] :
        N \in {ScoreProteins}, E \in SUBSET AllEdges(ScoreProteins)}
    \cup {[nodes |-> N, edges |-> E] :
             N \in {ScoreProteins \ {1}}, E \in SUBSET AllEdges(ScoreProteins \ {1})}

ScorePartitions ==
    {[cid \in ClusterIds |-> {p \in ScoreProteins : f[p] = cid}] :
        f \in [ScoreProteins -> ClusterIds]}

ScoreAnnotations ==
    UNION {[S -> (SUBSET Terms) \ {{}}] : S \in SUBSET ScoreProteins}

\* any graph with no annotation at all, or any annotation on the edgeless graph
InitScores ==
    /\ \E g \in ScoreGraphs, go \in ScoreAnnotations :
         /\ go = <<>> \/ (g.edges = {} /\ g.nodes = ScoreProteins)
         /\ graph = g
         /\ protein_go_terms = go
    /\ \E part \in ScorePartitions :
         /\ heap = [r \in {InputRef(cid) : cid \in ClusterIds} |-> part[r - 1]]
         /\ initial_clusters = [cid \in ClusterIds |-> InputRef(cid)]
         /\ tfidf_scores = compute_tf_idf(part, protein_go_terms)
         /\ permanence_scores = calculate_permanence_all_proteins(part, graph)
         /\ clusters0 = part
    /\ order = SortedSeq(ScoreProteins)
    /\ IdleEngine
    /\ IdleEval
    /\ IdleLEA

\* calculate_permanence(protein, cluster, graph, all_clusters) for any protein
\* and any cluster of the partition, on the inputs as they were built
PermanenceCall ==
    /\ last_call = NoCall
    /\ \E p \in ScoreProteins, cid \in ClusterIds :
         last_call' = [kind |-> "permanence", solution |-> <<p, cid>>, raised |-> FALSE,
                       value |-> calculate_permanence(p, clusters0[cid], graph, clusters0),
                       partition |-> <<>>, later |-> last_call # NoCall]
    /\ UNCHANGED <<frozenVars, heap, tableVars, engineVars, leaVars>>

\* calculate_membership(protein, cluster, cluster_id, ...) for any protein, any
\* cluster of the partition and any alpha, on the inputs as they were built
MembershipCall ==
    /\ last_call = NoCall
    /\ \E p \in ScoreProteins, cid \in ClusterIds, a \in AlphaGrid :
         /\ last_call' = [kind |-> "membership", solution |-> <<p, cid, a>>,
                          raised |-> FALSE,
                          value |-> calculate_membership(p, clusters0[cid], cid,
                                                         Frozen(a, 0), a),
                          partition |-> <<>>, later |-> last_call # NoCall]
         /\ tfidf_scores' = tfidf_after_queries(
                                tfidf_scores,
                                {<<cid, t>> : t \in GoOf(protein_go_terms, p)})
         /\ permanence_scores' = permanence_after_get(permanence_scores, p, cid)
    /\ UNCHANGED <<frozenVars, heap, engineVars, leaVars>>

NextScores == PermanenceCall \/ MembershipCall \/ Query

SpecScores == InitScores /\ [][NextScores]_vars

\* ================================================================ evaluator
\* the evaluator as it was constructed: the tables rebuilt from the partition
\* that was handed over, and a heap holding that partition
PristineHeap == [r \in {InputRef(cid) : cid \in DOMAIN clusters0} |-> clusters0[r - 1]]
PristineEvaluator ==
    [graph |-> graph, protein_go_terms |-> protein_go_terms,
     tfidf_scores |-> compute_tf_idf(clusters0, protein_go_terms),
     permanence_scores |-> calculate_permanence_all_proteins(clusters0, graph)]

\* C8: whatever calls have been made (engine, fitness evaluation, table
\* query), the initial partition, the permanence table and the TF-IDF table
\* have the values they had before the first call.
C8_InputsFrozen ==
    /\ Contents(heap, initial_clusters) = clusters0
    /\ DOMAIN heap = DOMAIN PristineHeap
    /\ tfidf_scores = PristineEvaluator.tfidf_scores
    /\ permanence_scores = PristineEvaluator.permanence_scores

\* after at least two calls, the last one a reassignment or evaluation whose
\* working partition differs from the initial one
C8_Witness ==
    /\ last_call.later
    /\ last_call.kind \in {"fitness", "reassign"}
    /\ last_call.partition # clusters0
    /\ DOMAIN tfidf_scores # {}

\* C10: a fitness call made after any sequence of calls returns what the same
\* call returns on the freshly constructed evaluator (the same value, or the
\* same exception).
C10_SameFitness ==
    last_call.kind = "fitness" =>
        LET fresh == compute_fitness(PristineEvaluator, PristineHeap, initial_clusters, order,
                                     last_call.solution, lambda_inter, lambda_fragment)
        IN /\ last_call.raised = fresh.raised
           /\ last_call.value = fresh.value

\* a fitness call that was not the first call and whose reassignment changed
\* the working partition
C10_Witness ==
    /\ last_call.kind = "fitness"
    /\ last_call.later
    /\ ~last_call.raised
    /\ last_call.partition # clusters0

\* ======================================================== reassignment engine
\* the working partition as cluster id -> member set
Working == Contents(heap, updated_clusters)

\* C6: at every point of apply_overlap_reassignment and in its result, the
\* cluster ids of the working partition are exactly those of the input
\* partition, also when a cluster has become empty.
C6_ClusterIdsConserved ==
    /\ DOMAIN updated_clusters = DOMAIN initial_clusters
    /\ DOMAIN Working = DOMAIN clusters0

\* a finished call in which a cluster that had members ended up empty
C6_Witness ==
    /\ epc = "done"
    /\ \E cid \in DOMAIN clusters0 :
          /\ clusters0[cid] # {}
          /\ cid \in DOMAIN updated_clusters
          /\ heap[updated_clusters[cid]] = {}

\* C7: an overlap step for protein p and candidate cluster c' removes no
\* protein from any cluster; the only change it can make is adding p to c'.
C7_OverlapOnlyAdds ==
    [][epc = "overlap" =>
          LET p == todo[pidx]
              c == DictOrder(updated_clusters)[cidx]
          IN \A cid \in DOMAIN updated_clusters :
                LET before == heap[updated_clusters[cid]]
                    after == heap'[updated_clusters'[cid]]
                IN /\ before \subseteq after
                   /\ after # before => (cid = c /\ after = before \cup {p})]_vars

\* the protein being processed has been added to a cluster it was not in
C7_Witness ==
    /\ epc \in {"overlap", "transfer"}
    /\ \E cid \in DOMAIN updated_clusters :
          /\ cid \notin SeqToSet(current_clusters)
          /\ todo[pidx] \in heap[updated_clusters[cid]]

\* C9 as stated: with overlap_tau = 2.1 the result has the same content as the
\* initial partition.
C9_Tau21Identity ==
    (epc = "done" /\ overlap_tau = Tau21) => Working = clusters0

\* no protein of the partition has more neighbours outside its cluster than inside
NoImbalance ==
    \A cid \in DOMAIN clusters0 : \A p \in clusters0[cid] :
        LET links == calculate_intra_extra_links(p, clusters0[cid], graph)
        IN links[2] <= links[1]

NumClustersOf(p) == Cardinality({cid \in DOMAIN updated_clusters : p \in Working[cid]})

\* C9 amended: with overlap_tau = 2.1 no overlap is created (every protein is
\* still in exactly one cluster, so the result differs from the initial
\* partition by transfers only), and the content is identical to the initial
\* partition when no protein has more neighbours outside its cluster than inside.
C9_Tau21NoOverlap ==
    (epc = "done" /\ overlap_tau = Tau21) =>
        /\ \A p \in UNION {clusters0[cid] : cid \in DOMAIN clusters0} : NumClustersOf(p) = 1
        /\ NoImbalance => Working = clusters0

\* a finished call with overlap_tau = 2.1, on a graph with edges and with a
\* weight alpha > 0, in which nothing moved
C9_Witness ==
    /\ epc = "done"
    /\ overlap_tau = Tau21
    /\ alpha > 0
    /\ NoImbalance
    /\ graph.edges # {}
    /\ Working = clusters0

\* ================================================================ optimizer
\* C1: in every reachable state of optimize the counter function_evaluations
\* is at most max_function_evaluations, and no step decreases it
C1_CounterMonotoneBounded ==
    /\ [](function_evaluations <= max_function_evaluations)
    /\ [][function_evaluations' >= function_evaluations]_vars

\* the budget runs out in the middle of a round: individuals are left, the
\* counter sits at the (positive) maximum
C1_Witness ==
    /\ lpc = "update"
    /\ i > 1
    /\ i <= population_size
    /\ max_function_evaluations > 0
    /\ function_evaluations = max_function_evaluations

\* C2: with population_size >= 1 and max_function_evaluations >= 1 optimize
\* terminates (it returns, or an exception of the fitness function leaves
\* it), it returns only with the counter equal to max_function_evaluations,
\* and it does not go on once the counter is there
C2_TerminatesAtBudget ==
    (population_size >= 1 /\ max_function_evaluations >= 1) =>
        /\ <>(lpc \in {"done", "raised"})
        /\ [](lpc = "done" => function_evaluations = max_function_evaluations)
        /\ [](function_evaluations = max_function_evaluations =>
                 <>(lpc \in {"done", "returned"}))

\* optimize has returned from a run whose budget is no multiple of the
\* population size
C2_Witness ==
    /\ lpc = "done"
    /\ population_size > 1
    /\ max_function_evaluations % population_size # 0
    /\ function_evaluations = max_function_evaluations

\* C3: after initialisation and after every position update every component of
\* every population vector and of best_solution is within its bounds
C3_WithinBounds ==
    lpc # "none" =>
        /\ \A k \in 1..population_size : \A d \in 1..dimensions :
              /\ lower_bounds[d] <= population[k][d]
              /\ population[k][d] <= upper_bounds[d]
        /\ \A d \in 1..dimensions :
              /\ lower_bounds[d] <= best_solution[d]
              /\ best_solution[d] <= upper_bounds[d]

\* a position update has stepped over a bound and was clipped back
C3_Witness ==
    /\ lpc = "update"
    /\ i > 1
    /\ clipped

\* a step in which the fitness function returned a value
FitnessCallStep ==
    /\ lpc = "evaluate"
    /\ function_evaluations' = function_evaluations + 1

\* C4: best_fitness never increases, and <<best_solution, best_fitness>>
\* changes only in a step whose fitness call returns a value strictly smaller
\* than best_fitness (and then that value is the new best_fitness)
C4_Elitism ==
    [][/\ best_fitness' <= best_fitness
       /\ (<<best_solution', best_fitness'>> # <<best_solution, best_fitness>>) =>
             /\ FitnessCallStep
             /\ last_fitness' < best_fitness
             /\ best_fitness' = last_fitness'
       /\ (FitnessCallStep /\ last_fitness' >= best_fitness) =>
             UNCHANGED <<best_solution, best_fitness>>]_vars

\* the last fitness call returned a worse value for a vector that is not the
\* best one, and the best pair stayed
C4_Witness ==
    /\ lpc = "evaluate"
    /\ i > 1
    /\ last_fitness > best_fitness
    /\ population[i - 1] # best_solution

\* C5: two runs of optimize_communities with the same seed on identical
\* inputs return the same best_parameters and the same best_fitness
C5_SeedDeterminism ==
    (run = 2 /\ lpc = "returned") =>
        /\ best_solution = first_result.best_solution
        /\ best_fitness = first_result.best_fitness

\* ============================================================ error handling
\* the proteins of the initial partition that are no node of the graph
Strangers == (UNION {clusters0[cid] : cid \in DOMAIN clusters0}) \ graph.nodes

\* C11: an exception raised while one candidate is evaluated, in the
\* reassignment or in the scoring after it, never reaches the optimizer loop:
\* the fitness call returns (the penalty) and the search goes on
C11_NoExceptionReachesLoop == lpc # "raised"

\* C12: with a protein of the partition that is no node of the graph, its
\* permanence is 0, its intra and extra links are 0, and neither the engine
\* nor the fitness evaluator raises
C12_StrangerIsIsolated ==
    \A p \in Strangers :
        /\ \A cid \in DOMAIN clusters0 :
              /\ p \in clusters0[cid] => get_permanence(permanence_scores, p, cid) = 0
              /\ calculate_intra_extra_links(p, clusters0[cid], graph) = <<0, 0>>
        /\ last_call.kind \in {"fitness", "reassign"} => ~last_call.raised

\* C13: a configuration with a lower bound above the upper bound, a
\* population size <= 0 or a budget <= 0 is rejected before the loop starts:
\* nothing is counted and optimize returns no result
C13_InvalidConfigRejected ==
    (\/ \E d \in 1..dimensions : lower_bounds[d] > upper_bounds[d]
     \/ population_size <= 0
     \/ max_function_evaluations <= 0) =>
        /\ function_evaluations = 0
        /\ lpc \notin {"done", "returned"}

\* ========================================================= scoring functions
\* C14: calculate_permanence returns a value in [-1, 1]; exactly 0 for a
\* protein that has no neighbours or is no node of the graph; exactly 1 for a
\* protein with at least one neighbour whose neighbours all lie in the cluster
C14_PermanenceRange ==
    last_call.kind = "permanence" =>
        LET p == last_call.solution[1]
            cluster == clusters0[last_call.solution[2]]
            neigh == IF p \in graph.nodes THEN neighbors(graph, p) ELSE {}
        IN /\ last_call.value >= -Unit
           /\ last_call.value <= Unit
           /\ neigh = {} => last_call.value = 0
           /\ (neigh # {} /\ neigh \subseteq cluster) => last_call.value = Unit

\* a call whose Eq.1 value exceeds 1: two internal neighbours that are
\* adjacent, one neighbour in another cluster
C14_Witness ==
    /\ last_call.kind = "permanence"
    /\ last_call.solution[1] \in graph.nodes
    /\ LET p == last_call.solution[1]
           cluster == clusters0[last_call.solution[2]]
           neigh == neighbors(graph, p)
       IN /\ Cardinality(neigh \cap cluster) = 2
          /\ PairEdges(graph, neigh \cap cluster) = 1
          /\ Cardinality(neigh \ cluster) = 1
    /\ last_call.value = Unit

\* C15: with an empty annotation map the functional dependency is 0 for every
\* protein and cluster, and the membership is alpha times the entry of the
\* permanence table (0 when there is none), for every alpha in [0, 1]
C15_EmptyAnnotationMembership ==
    (last_call.kind = "membership" /\ protein_go_terms = <<>>) =>
        LET p == last_call.solution[1]
            cid == last_call.solution[2]
            a == last_call.solution[3]
        IN /\ calculate_functional_dependency(p, clusters0[cid], protein_go_terms,
                                              tfidf_scores, cid) = 0
           /\ last_call.value
                 = (a * get_permanence(permanence_scores, p, cid)) \div Unit

\* a membership call with no annotations, half weight, and a non-zero
\* permanence entry
C15_Witness ==
    /\ last_call.kind = "membership"
    /\ protein_go_terms = <<>>
    /\ last_call.solution[3] = Unit \div 2
    /\ get_permanence(permanence_scores, last_call.solution[1], last_call.solution[2]) < 0
    /\ last_call.value < 0

\* C18: every TF-IDF score is >= 0; the document frequency of a term that has a
\* score is between 1 and the number of clusters; a term annotated in every
\* cluster scores 0 in every cluster; get_tfidf returns 0 for a pair that the
\* table does not hold
C18_TfidfNonNegative ==
    /\ \A c \in DOMAIN tfidf_scores : \A t \in DOMAIN tfidf_scores[c] :
          LET df == df_count(clusters0, protein_go_terms, t)
          IN /\ tfidf_scores[c][t] >= 0
             /\ df >= 1
             /\ df <= Cardinality(DOMAIN clusters0)
             /\ df = Cardinality(DOMAIN clusters0) => tfidf_scores[c][t] = 0
    /\ (/\ last_call.kind = "query"
        /\ \/ last_call.solution[1] \notin DOMAIN tfidf_scores
           \/ last_call.solution[2] \notin DOMAIN tfidf_scores[last_call.solution[1]])
          => last_call.value = 0

\* a query for a cluster id the table has no row for, on a table in which a
\* term occurs in every cluster
C18_Witness ==
    /\ last_call.kind = "query"
    /\ last_call.solution[1] \notin DOMAIN tfidf_scores
    /\ last_call.value = 0
    /\ \E t \in Terms :
          /\ df_count(clusters0, protein_go_terms, t) = NumClusters
          /\ \A c \in ClusterIds : get_tfidf(tfidf_scores, c, t) = 0
          /\ \A c \in ClusterIds : t \in DOMAIN tfidf_scores[c]

C17_OrderIndependent ==
    epc = "done" =>
        \E fz \in {call_params(PristineEvaluator, alpha, overlap_tau, 0)} :
            Working = Contents(apply_overlap_reassignment(fz, PristineHeap, initial_clusters,
                                                          SortedSeq(Proteins)),
                               copy_refs(PristineHeap, initial_clusters))

\* C19: the engine makes two sequential passes: when a transfer decision is
\* taken, the overlap tests of every protein have been made (no protein is
\* still waiting for its overlap tests)
C19_OverlapPassFirst ==
    epc = "transfer" => pidx = Len(todo)

\* C20: in an overlap test of protein p against a cluster it was not in, p is
\* added iff the membership it would have there exceeds, by more than
\* overlap_tau, the largest membership of p over the clusters that contain p at
\* that moment, those joined earlier in the same pass included
C20_BaselineAtTestTime ==
    [][(epc = "overlap" /\ DictOrder(updated_clusters)[cidx] \notin SeqToSet(current_clusters)) =>
          LET protein == todo[pidx]
              cluster_id == DictOrder(updated_clusters)[cidx]
              fz == Frozen(alpha, overlap_tau)
              memb_if_added ==
                  calculate_membership(protein,
                                       heap[updated_clusters[cluster_id]] \cup {protein},
                                       cluster_id, fz, fz.alpha)
              baseline ==
                  max_current_memb(fz, heap, updated_clusters, protein,
                                   current_clusters_of(heap, updated_clusters, protein))
          IN (protein \in heap'[updated_clusters[cluster_id]])
                <=> (memb_if_added - baseline > overlap_tau)]_vars

\* ============================================================ transfer tests
\* C21: in the transfer test of protein p for source cluster cid, the
\* candidate destination is the cluster holding the most neighbours of p among
\* all clusters other than cid, the first such cluster in dict order on a tie,
\* and there is none when no other cluster holds a neighbour of p
C21_EmaxExcludesOnlySource ==
    epc = "transfer" =>
        LET protein == todo[pidx]
            cid == current_clusters[cidx]
            neigh == IF protein \in graph.nodes THEN neighbors(graph, protein) ELSE {}
            others == DOMAIN updated_clusters \ {cid}
            e == find_emax_cluster(protein, Working, graph)
        IN calculate_intra_extra_links(protein, Working[cid], graph)[2]
               > calculate_intra_extra_links(protein, Working[cid], graph)[1]
           => IF \A c \in others : neigh \cap Working[c] = {}
              THEN e = NoCluster
              ELSE /\ e \in others
                   /\ \A c \in others :
                         LET n_c == Cardinality(neigh \cap Working[c])
                             n_e == Cardinality(neigh \cap Working[e])
                         IN /\ n_c <= n_e
                            /\ n_c = n_e => e <= c

\* C22: a transfer test of protein p for source cluster cid changes the
\* partition only when p has strictly more neighbours outside cid than inside
\* it and the destination holds strictly more neighbours of p than cid; the
\* change is then a hard move (p leaves cid and is in the destination, nothing
\* else changes); otherwise every cluster is left as it was
C22_TransferIsHardMove ==
    [][epc = "transfer" =>
          LET protein == todo[pidx]
              cid == current_clusters[cidx]
              neigh == IF protein \in graph.nodes THEN neighbors(graph, protein) ELSE {}
              before == Working
              after == [c \in DOMAIN updated_clusters' |-> heap'[updated_clusters'[c]]]
              intra == Cardinality(neigh \cap before[cid])
              extra == Cardinality(neigh \ before[cid])
          IN \/ after = before
             \/ /\ extra > intra
                /\ \E e \in DOMAIN before \ {cid} :
                      /\ Cardinality(neigh \cap before[e]) > intra
                      /\ after = [c \in DOMAIN before |->
                                    IF c = cid THEN before[c] \ {protein}
                                    ELSE IF c = e THEN before[c] \cup {protein}
                                    ELSE before[c]]
                      /\ protein \notin after[cid]
                      /\ protein \in after[e]
                      /\ protein \in before[cid]
                      /\ protein \notin before[e]]_vars

\* a protein has been transferred: it is no longer in the cluster that held it
\* in the initial partition
C22_Witness ==
    /\ epc \in {"protein", "done"}
    /\ \E cid \in DOMAIN clusters0 : \E q \in clusters0[cid] :
          /\ q \notin Working[cid]
          /\ \E e \in DOMAIN clusters0 \ {cid} : q \in Working[e]

C24_MoveThenEvaluate ==
    (/\ lpc = "update"
     /\ i <= population_size
     /\ update_allowed(function_evaluations, max_function_evaluations))
        => fitness_calls = position_updates

\* ==================================================== membership counts
\* C25: for every protein of the initial partition the number of clusters that
\* contain it never decreases while the engine runs: an overlap step that adds
\* it raises the number by one, a transfer step leaves it as it is; in the
\* result every such protein is in at least one cluster and the union of the
\* clusters is the union of the initial clusters
C25_MembershipCountGrows ==
    /\ [][\A q \in UNION {clusters0[c] : c \in DOMAIN clusters0} :
             LET before == Cardinality({c \in DOMAIN updated_clusters :
                                          q \in heap[updated_clusters[c]]})
                 after == Cardinality({c \in DOMAIN updated_clusters' :
                                         q \in heap'[updated_clusters'[c]]})
             IN /\ after >= before
                /\ epc = "overlap" => after \in {before, before + 1}
                /\ epc = "transfer" => after = before
         ]_vars
    /\ [](epc = "done" =>
            /\ \A q \in UNION {clusters0[c] : c \in DOMAIN clusters0} :
                  \E c \in DOMAIN Working : q \in Working[c]
            /\ UNION {Working[c] : c \in DOMAIN Working}
                  = UNION {clusters0[c] : c \in DOMAIN clusters0})

\* the call has returned with a protein that was transferred and a protein
\* that is in two clusters
C25_Witness ==
    /\ epc = "done"
    /\ \E cid \in DOMAIN clusters0 : \E q \in clusters0[cid] : q \notin Working[cid]
    /\ \E q \in Proteins :
          Cardinality({c \in DOMAIN Working : q \in Working[c]}) = 2

\* ==================================================== the contents argument
\* C26: the membership and the functional dependency of a protein for a
\* cluster id are the same for every value of the cluster-contents argument
\* (so the score on c' with p added equals the score on c'): they depend on
\* the protein, the cluster id, alpha, the annotations and the two tables only
C26_ContentsArgumentUnused ==
    last_call.kind = "membership" =>
        LET p == last_call.solution[1]
            cid == last_call.solution[2]
            a == last_call.solution[3]
        IN \A S \in SUBSET ScoreProteins :
              /\ calculate_membership(p, S, cid, Frozen(a, 0), a) = last_call.value
              /\ calculate_functional_dependency(p, S, protein_go_terms, tfidf_scores, cid)
                    = calculate_functional_dependency(p, clusters0[cid], protein_go_terms,
                                                      tfidf_scores, cid)

\* a membership call for a cluster that does not hold the protein, with a
\* functional dependency above 0
C26_Witness ==
    /\ last_call.kind = "membership"
    /\ last_call.solution[1] \notin clusters0[last_call.solution[2]]
    /\ last_call.value > 0

\* C27: with 1 <= max_evaluations <= population_size the position updates of
\* the first iteration use up the budget: no fitness call is made, optimize
\* returns best_fitness = +infinity, and the vector it returns is the one the
\* constructor copied from the first individual before any move (it starts as
\* that copy and no step without a fitness call changes it)
C27_SmallBudgetNeverEvaluates ==
    /\ (best_solution = population[1] /\ best_fitness = Inf)
    /\ [][fitness_calls' = fitness_calls /\ run' = run =>
             best_solution' = best_solution /\ best_fitness' = best_fitness]_vars
    /\ []((/\ max_function_evaluations >= 1
            /\ max_function_evaluations <= population_size) =>
              /\ fitness_calls = 0
              /\ lpc \in {"done", "returned"} =>
                    /\ position_updates = max_function_evaluations
                    /\ best_fitness = Inf
                    /\ best_source = 1)

\* optimize has returned with budget 2 and population 2, both individuals
\* moved, the first one away from the vector that is returned
C27_Witness ==
    /\ lpc = "done"
    /\ population_size = 2
    /\ max_function_evaluations = 2
    /\ position_updates = 2
    /\ fitness_calls = 0
    /\ best_fitness = Inf
    /\ population[1] # best_solution

\* C28: once a fitness call has returned, best_fitness is the value the
\* fitness function returns for the vector in best_solution; and best_solution
\* is a snapshot: a position update, of the individual it was copied from or of
\* any other, leaves the best pair as it is
C28_BestPairIsSnapshot ==
    /\ [](function_evaluations - position_updates >= 1 =>
            \E r \in {fitness_func(Evaluator, heap, initial_clusters, order, best_solution)} :
                /\ ~r.raised
                /\ best_fitness = r.value)
    /\ [][position_updates' = position_updates + 1 =>
             /\ best_solution' = best_solution
             /\ best_fitness' = best_fitness]_vars

\* after a fitness call made the vector of an individual the best one, that
\* individual has moved on and the best vector has stayed
C28_Witness ==
    /\ lpc \in {"update", "evaluate"}
    /\ function_evaluations - position_updates >= 1
    /\ best_fitness < Inf
    /\ population[best_source] # best_solution
    /\ position_updates > population_size

\* ============================================================== frame
\* C29: processing one protein p (its overlap tests and its transfer tests)
\* changes the memberships of p only: for every other protein q and every
\* cluster c, q is in c after the step iff it was before
C29_OnlyOwnMemberships ==
    [][(epc \in {"overlap", "transfer"}) =>
          (\A q \in Proteins \ {todo[pidx]} : \A c \in DOMAIN updated_clusters :
              (q \in heap'[updated_clusters'[c]]) <=> (q \in heap[updated_clusters[c]]))
      ]_vars

\* the first protein has been processed and its memberships have changed,
\* those of the proteins still to come have not
C29_Witness ==
    /\ epc = "protein"
    /\ pidx = 2
    /\ Len(todo) >= 2
    /\ Working # clusters0
    /\ \A c \in DOMAIN clusters0 : Working[c] \ {todo[1]} = clusters0[c] \ {todo[1]}

\* ================================================== overlap without annotations
\* C30: the permanence table holds an entry for a protein only under the
\* cluster that holds it in the initial partition, so a candidate cluster of the
\* overlap loop has structural score 0; with no annotations (and the disjoint
\* initial partition) the protein is added to a candidate iff
\* -alpha * permanence(p, own cluster) > overlap_tau, the same for every candidate
C30_UniformOverlapDecision ==
    /\ [](\A q \in DOMAIN permanence_scores : \A c \in DOMAIN permanence_scores[q] :
             c \in DOMAIN clusters0 /\ q \in clusters0[c])
    /\ [][(/\ epc = "overlap"
           /\ protein_go_terms = <<>>
           /\ DictOrder(updated_clusters)[cidx] \notin SeqToSet(current_clusters)) =>
             LET protein == todo[pidx]
                 cluster_id == DictOrder(updated_clusters)[cidx]
                 own == CHOOSE c \in DOMAIN clusters0 : protein \in clusters0[c]
                 own_permanence == get_permanence(permanence_scores, protein, own)
             IN /\ get_permanence(permanence_scores, protein, cluster_id) = 0
                /\ (protein \in heap'[updated_clusters[cluster_id]])
                      <=> (0 - (alpha * own_permanence) \div Unit > overlap_tau)
         ]_vars

\* without annotations a protein with negative permanence in its own cluster
\* has been added to both other clusters
C30_Witness ==
    /\ epc = "transfer"
    /\ protein_go_terms = <<>>
    /\ overlap_tau > 0
    /\ \A c \in DOMAIN updated_clusters : todo[pidx] \in heap[updated_clusters[c]]

====
